---- MODULE Spec2Model ----
(***************************************************************************)
(* A model of the OpenAPI-to-dataclass generator:                          *)
(*   - src/src/generator/generator.py      (Generator, map_openapi_type)   *)
(*   - src/src/generator/YamlDataClass.py  (keyword aliasing at run time)  *)
(*                                                                         *)
(* Eight specifications share the module:                                  *)
(*   SpecMangle  one field name through mangle_python_keyword,             *)
(*               __alias_keywords__ and __dealias_keywords__;              *)
(*   SpecDefs    convert_definitions_to_dataclasses on one schema;         *)
(*   SpecPaths   convert_paths_to_methods, one loop iteration per step,    *)
(*               on documents of up to MaxOps operations;                  *)
(*   SpecSig     convert_paths_to_methods on a one-operation document with *)
(*               varied paths, operationIds and parameter lists;           *)
(*   SpecNames   the field names of one schema through mangling and the    *)
(*               de-aliasing of asdict;                                    *)
(*   SpecTypes   one property fragment through get_openapi_type and        *)
(*               map_openapi_type;                                         *)
(*   SpecClasses convert_definitions_to_dataclasses on a definitions       *)
(*               section, with the caller's fixed class definitions;       *)
(*   SpecFile    from_file: version detection, the two conversions and the *)
(*               writes to the output file.                                *)
(***************************************************************************)
EXTENDS FiniteSets, Integers, Sequences, TLC

VARIABLES
    \* -- identifier mangling ------------------------------------------------
    mpc,          \* "idle" | "schema" | "generated" | "loaded" | "load_error"
                  \* | "dumped" | "dump_error"
    word,         \* the wire name of the field (a sequence of characters)
    field,        \* the identifier the generated class declares for it
    key_map,      \* the key map after the last aliasing / de-aliasing call
    \* -- definitions -> dataclasses ----------------------------------------
    dpc,          \* "idle" | "start" | "done" | "error"
    schema,       \* the schema definition: [properties, required]
    fields,       \* the rendered field lines of the class
    \* -- paths -> methods ---------------------------------------------------
    ppc,          \* "idle" | "loop" | "done" | "error"
    paths,        \* the (path, method, methoddef) triples in document order
    next_op,      \* index of the next triple the loops visit
    response_content_type,   \* the local variable of convert_paths_to_methods
    result,       \* the rendered method texts
    api_methods,  \* api.methods of the returned PythonProgramClass
    warnings,     \* what the run printed about operations
    \* -- the field names of one schema through mangling and asdict ----------
    npc,          \* "idle" | "schema" | "generated" | "dumped" | "dump_error"
    field_names,  \* the property names of the schema, in declaration order
    identifiers,  \* the identifiers the generated class declares for them
    names_out,    \* the dict __dealias_keywords__ leaves behind
    \* -- one property fragment through type resolution and mapping ---------
    tpc,          \* "idle" | "fragment" | "resolved" | "mapped" | "error"
    prop,         \* the fragment (field_props)
    resolved,     \* open_api_type and array_type of lines 197-200
    type_name,    \* the mapped type name, or the error raised
    \* -- convert_definitions_to_dataclasses over a definitions section ------
    cpc,          \* "idle" | "loop" | "done" | "error"
    definitions,  \* the section: a list of <key, schema> in document order
    fixed_class_definitions, \* the caller's overrides: class name -> text
    next_def,     \* index of the definition the loop handles next
    blocks,       \* the list `result` of the function
    \* -- from_file ---------------------------------------------------------
    fpc,          \* "idle" | "loaded" | "selected" | "classes" | "methods" |
                  \* "written" | "exit" | "no_definitions" | "error"
    openapi_spec, \* the parsed document
    section,      \* the local `definitions` of from_file
    dataclasses_code, \* the blocks convert_definitions_to_dataclasses returned
    methods,      \* the method texts convert_paths_to_methods returned
    methods_class, \* the PythonProgramClass it returned, as a 0/1 sequence
    output        \* what has been written to output_file, in order

mvars == <<mpc, word, field, key_map>>
dvars == <<dpc, schema, fields>>
pvars == <<ppc, paths, next_op, response_content_type, result, api_methods, warnings>>
nvars == <<npc, field_names, identifiers, names_out>>
tvars == <<tpc, prop, resolved, type_name>>
cvars == <<cpc, definitions, fixed_class_definitions, next_def, blocks>>
fvars == <<fpc, openapi_spec, section, dataclasses_code, methods, methods_class, output>>
vars == <<mvars, dvars, pvars, nvars, tvars, cvars, fvars>>

NoWord == <<>>
EmptyDict == <<>>

MangleIdle == mpc = "idle" /\ word = NoWord /\ field = NoWord /\ key_map = EmptyDict

(***************************************************************************)
(* Strings.  A word is a sequence of one-character strings, so that        *)
(* str.upper, str.casefold and str.isupper are computed per character.     *)
(***************************************************************************)
LowerCase == << "a", "b", "c", "d", "e", "f", "g", "h", "i", "j", "k", "l", "m", "n", "o", "p", "q", "r", "s", "t", "u", "v", "w", "x", "y", "z" >>
UpperCase == << "A", "B", "C", "D", "E", "F", "G", "H", "I", "J", "K", "L", "M", "N", "O", "P", "Q", "R", "S", "T", "U", "V", "W", "X", "Y", "Z" >>

CharUpper(c) ==
    IF \E i \in DOMAIN LowerCase : LowerCase[i] = c
    THEN UpperCase[CHOOSE i \in DOMAIN LowerCase : LowerCase[i] = c]
    ELSE c

CharLower(c) ==
    IF \E i \in DOMAIN UpperCase : UpperCase[i] = c
    THEN LowerCase[CHOOSE i \in DOMAIN UpperCase : UpperCase[i] = c]
    ELSE c

IsLowerChar(c) == \E i \in DOMAIN LowerCase : LowerCase[i] = c
IsUpperChar(c) == \E i \in DOMAIN UpperCase : UpperCase[i] = c

\* str.upper()
upper(w) == [i \in DOMAIN w |-> CharUpper(w[i])]

\* str.casefold(), which on ASCII letters is lower-casing
casefold(w) == [i \in DOMAIN w |-> CharLower(w[i])]

\* str.isupper(): at least one cased character and no lower-case one
isupper(w) ==
    /\ \E i \in DOMAIN w : IsUpperChar(w[i])
    /\ \A i \in DOMAIN w : ~IsLowerChar(w[i])

\* keyword.kwlist
kwlist ==
    << <<"F","a","l","s","e">>,
       <<"N","o","n","e">>,
       <<"T","r","u","e">>,
       <<"a","n","d">>,
       <<"a","s">>,
       <<"a","s","s","e","r","t">>,
       <<"a","s","y","n","c">>,
       <<"a","w","a","i","t">>,
       <<"b","r","e","a","k">>,
       <<"c","l","a","s","s">>,
       <<"c","o","n","t","i","n","u","e">>,
       <<"d","e","f">>,
       <<"d","e","l">>,
       <<"e","l","i","f">>,
       <<"e","l","s","e">>,
       <<"e","x","c","e","p","t">>,
       <<"f","i","n","a","l","l","y">>,
       <<"f","o","r">>,
       <<"f","r","o","m">>,
       <<"g","l","o","b","a","l">>,
       <<"i","f">>,
       <<"i","m","p","o","r","t">>,
       <<"i","n">>,
       <<"i","s">>,
       <<"l","a","m","b","d","a">>,
       <<"n","o","n","l","o","c","a","l">>,
       <<"n","o","t">>,
       <<"o","r">>,
       <<"p","a","s","s">>,
       <<"r","a","i","s","e">>,
       <<"r","e","t","u","r","n">>,
       <<"t","r","y">>,
       <<"w","h","i","l","e">>,
       <<"w","i","t","h">>,
       <<"y","i","e","l","d">> >>

\* Generator.reserved_names
reserved_names ==
    << <<"f","i","e","l","d">>, <<"L","i","s","t">>, <<"D","i","c","t">>, <<"A","n","y">> >>

iskeyword(w) == \E i \in DOMAIN kwlist : kwlist[i] = w

InReservedNames(w) == \E i \in DOMAIN reserved_names : reserved_names[i] = w

\* the reserved set: Python keywords plus field, List, Dict, Any
IsReserved(w) == iskeyword(w) \/ InReservedNames(w)

\* Generator.mangle_python_keyword
mangle_python_keyword(w) ==
    IF iskeyword(w) \/ InReservedNames(w) THEN upper(w) ELSE w

\* field names that are not reserved, of several letter cases
OtherWords ==
    { <<"i","d">>, <<"n","a","m","e">>, <<"I","D">>, <<"N","a","m","e">>, <<"F","I","E","L","D">>, <<"C","L","A","S","S">>, <<"l","i","s","t">>, <<"x","_","1">>, <<"F","i","e","l","d">>, <<"N","O","N","E">>, <<"T","r","u","e","_">> }

Words == {kwlist[i] : i \in DOMAIN kwlist}
             \cup {reserved_names[i] : i \in DOMAIN reserved_names}
             \cup OtherWords

(***************************************************************************)
(* A dict, as the loops below see it: the entry array in insertion order.  *)
(* del leaves a dead entry behind, a new key is appended, and the key      *)
(* iterator walks the array by index and raises RuntimeError when the      *)
(* number of live entries differs from the one it started with.            *)
(*                                                                         *)
(* Both loops below add and delete keys of the dict they iterate over,     *)
(* for which Python promises only that the iteration "may raise a          *)
(* RuntimeError or fail to iterate over all entries".  An interpreter that *)
(* counts the keys it hands out (strict: CPython since 3.8 does) raises    *)
(* RuntimeError when it finds a key after having handed out as many as the *)
(* dict held at the start; one that does not count walks on.  The          *)
(* interpreter is a parameter of the loops and both kinds are explored.    *)
(***************************************************************************)
Used(d) == Cardinality({i \in DOMAIN d : d[i].live})

HasKey(d, k) == \E i \in DOMAIN d : d[i].live /\ d[i].key = k

KeyIndex(d, k) == CHOOSE i \in DOMAIN d : d[i].live /\ d[i].key = k

GetItem(d, k) == d[KeyIndex(d, k)].value

SetItem(d, k, v) ==
    IF HasKey(d, k)
    THEN [d EXCEPT ![KeyIndex(d, k)].value = v]
    ELSE Append(d, [key |-> k, value |-> v, live |-> TRUE])

DelItem(d, k) == [d EXCEPT ![KeyIndex(d, k)].live = FALSE]

\* the live keys of the entries from index i on, in order
RECURSIVE KeysFrom(_, _)
KeysFrom(d, i) ==
    IF i > Len(d) THEN <<>>
    ELSE IF d[i].live THEN <<d[i].key>> \o KeysFrom(d, i + 1)
    ELSE KeysFrom(d, i + 1)

\* the dict as a value: its live keys in order
Keys(d) == KeysFrom(d, 1)

\* index of the first live entry at or after i, 0 when there is none
NextLive(d, i) ==
    IF \E n \in i..Len(d) : d[n].live
    THEN CHOOSE n \in i..Len(d) : d[n].live /\ \A m \in i..(n - 1) : ~d[m].live
    ELSE 0

OneKeyDict(k) == <<[key |-> k, value |-> "v", live |-> TRUE]>>

AllKeywords == kwlist \o reserved_names

\* the inner loop of __dealias_keywords__ (lines 14-18) from keyword j on
RECURSIVE DealiasMatch(_, _, _)
DealiasMatch(st, key, j) ==
    IF j > Len(AllKeywords) \/ st.error /= "none" THEN st
    ELSE IF casefold(key) = casefold(AllKeywords[j])
         THEN IF ~HasKey(st.dict, key)
              THEN [st EXCEPT !.error = "KeyError"]
              ELSE DealiasMatch(
                       [dict |-> DelItem(SetItem(st.dict, AllKeywords[j],
                                                 GetItem(st.dict, key)), key),
                        match_found |-> TRUE,
                        error |-> "none"], key, j + 1)
         ELSE DealiasMatch(st, key, j + 1)

\* the outer loop of __dealias_keywords__ from entry i on
RECURSIVE DealiasLoop(_, _, _, _, _)
DealiasLoop(d, i, used0, remaining, strict) ==
    IF Used(d) /= used0 THEN [dict |-> d, error |-> "RuntimeError"]
    ELSE LET n == NextLive(d, i) IN
         IF n = 0 THEN [dict |-> d, error |-> "none"]
         ELSE IF strict /\ remaining = 0 THEN [dict |-> d, error |-> "RuntimeError"]
         ELSE IF isupper(d[n].key)
              THEN LET r == DealiasMatch([dict |-> d, match_found |-> FALSE,
                                          error |-> "none"], d[n].key, 1)
                   IN IF r.error /= "none" THEN [dict |-> r.dict, error |-> r.error]
                      ELSE IF ~r.match_found
                           THEN [dict |-> r.dict, error |-> "Exception"]
                           ELSE DealiasLoop(r.dict, n + 1, used0, remaining - 1, strict)
              ELSE DealiasLoop(d, n + 1, used0, remaining - 1, strict)

\* YamlDataClass.__dealias_keywords__
dealias_keywords(output_dict, strict) ==
    DealiasLoop(output_dict, 1, Used(output_dict), Used(output_dict), strict)

\* the loop of __alias_keywords__ from entry i on
RECURSIVE AliasLoop(_, _, _, _, _)
AliasLoop(d, i, used0, remaining, strict) ==
    IF Used(d) /= used0 THEN [dict |-> d, error |-> "RuntimeError"]
    ELSE LET n == NextLive(d, i) IN
         IF n = 0 THEN [dict |-> d, error |-> "none"]
         ELSE IF strict /\ remaining = 0 THEN [dict |-> d, error |-> "RuntimeError"]
         ELSE LET k == d[n].key IN
              IF iskeyword(k) \/ InReservedNames(k)
              THEN IF iskeyword(upper(k))
                   THEN [dict |-> d, error |-> "Exception"]
                   ELSE AliasLoop(DelItem(SetItem(d, upper(k), GetItem(d, k)), k),
                                  n + 1, used0, remaining - 1, strict)
              ELSE AliasLoop(d, n + 1, used0, remaining - 1, strict)

\* YamlDataClass.__alias_keywords__
alias_keywords(input_dict, strict) ==
    AliasLoop(input_dict, 1, Used(input_dict), Used(input_dict), strict)

(***************************************************************************)
(* One field name, from the schema to the generated class and through a    *)
(* load and a dump of an instance.                                         *)
(***************************************************************************)
InitMangle ==
    /\ mpc = "schema"
    /\ word \in Words
    /\ field = NoWord
    /\ key_map = EmptyDict

\* convert_definitions_to_dataclasses names the class field (lines 206, 208)
GenerateField ==
    /\ mpc = "schema"
    /\ field' = mangle_python_keyword(word)
    /\ mpc' = "generated"
    /\ UNCHANGED <<word, key_map>>

\* YamlDataClass.load: the wire dict is aliased before schema.load
LoadInstance ==
    /\ mpc = "generated"
    /\ \E strict \in BOOLEAN :
         LET r == alias_keywords(OneKeyDict(word), strict) IN
           /\ key_map' = r.dict
           /\ mpc' = IF r.error = "none" THEN "loaded" ELSE "load_error"
    /\ UNCHANGED <<word, field>>

\* YamlDataClass.asdict: the instance's dict, keyed by the class's field
\* names, is de-aliased
AsDict ==
    /\ mpc \in {"generated", "loaded"}
    /\ \E strict \in BOOLEAN :
         LET r == dealias_keywords(OneKeyDict(field), strict) IN
           /\ key_map' = r.dict
           /\ mpc' = IF r.error = "none" THEN "dumped" ELSE "dump_error"
    /\ UNCHANGED <<word, field>>

(***************************************************************************)
(* The field names of one schema: the generated class declares the mangled *)
(* names, and asdict de-aliases the dict of an instance, which has one key *)
(* per declared identifier.  The dicts stay within the five entries the    *)
(* smallest hash table holds, so that no insertion rebuilds the entry      *)
(* array.                                                                  *)
(***************************************************************************)
MaxNames == 2

FieldWords ==
    { <<"c","l","a","s","s">>, <<"C","L","A","S","S">>, <<"L","i","s","t">>,
      <<"i","d">>, <<"I","D">>, <<"n","a","m","e">>, <<"N","o","n","e">> }

NamesIdle ==
    npc = "idle" /\ field_names = <<>> /\ identifiers = <<>> /\ names_out = EmptyDict

\* the dict of an instance: one key per identifier, a repeated identifier
\* keeps its first position
RECURSIVE DictOf(_, _, _)
DictOf(keys, i, d) ==
    IF i > Len(keys) THEN d ELSE DictOf(keys, i + 1, SetItem(d, keys[i], "v"))

\* convert_definitions_to_dataclasses names the class fields (lines 206, 208)
MangleFields ==
    /\ npc = "schema"
    /\ identifiers' = [i \in DOMAIN field_names |-> mangle_python_keyword(field_names[i])]
    /\ npc' = "generated"
    /\ UNCHANGED <<field_names, names_out>>

\* YamlDataClass.asdict on an instance of the generated class
DumpFields ==
    /\ npc = "generated"
    /\ \E strict \in BOOLEAN :
         LET r == dealias_keywords(DictOf(identifiers, 1, EmptyDict), strict) IN
           /\ names_out' = r.dict
           /\ npc' = IF r.error = "none" THEN "dumped" ELSE "dump_error"
    /\ UNCHANGED <<field_names, identifiers>>

(***************************************************************************)
(* Schema fragments and type names.                                        *)
(*                                                                         *)
(* A "$ref" or "type" value is a string that map_openapi_type splits on    *)
(* "/" and then on ".": it is modelled as the sequence of its "/"-separated*)
(* segments, each the sequence of its "."-separated parts.  A fragment is  *)
(* [ref, type, items], each a sequence holding the value when the key is   *)
(* present and empty when it is absent.                                    *)
(***************************************************************************)
Str(s) == <<<<s>>>>

Last(s) == s[Len(s)]

TypeFrag(t) == [ref |-> <<>>, type |-> <<Str(t)>>, items |-> <<>>]
RefFrag(r) == [ref |-> <<r>>, type |-> <<>>, items |-> <<>>]
ArrayFrag(item) == [ref |-> <<>>, type |-> <<Str("array")>>, items |-> <<item>>]
EmptyFrag == [ref |-> <<>>, type |-> <<>>, items |-> <<>>]

BookRef == << <<"#">>, <<"components">>, <<"schemas">>, <<"Book">> >>
AuthorRef == << <<"#">>, <<"definitions">>, <<"io", "example", "Author">> >>

\* what a call raised instead of returning
NotImplementedError == "<NotImplementedError>"
KeyError == "<KeyError>"
AttributeError == "<AttributeError>"
Errors == {NotImplementedError, KeyError, AttributeError}

ErrorType(e) == [data_type |-> "ERROR", type_string |-> Str(e)]
NoneType == [data_type |-> "NONE", type_string |-> Str("None")]

\* Generator.get_openapi_type
get_openapi_type(properties) ==
    IF properties.ref /= <<>>
    THEN [data_type |-> "REF", type_string |-> properties.ref[1]]
    ELSE IF properties.type /= <<>>
         THEN [data_type |-> "BASIC", type_string |-> properties.type[1]]
         ELSE ErrorType(NotImplementedError)

\* type_mapping of map_openapi_type
type_mapping(type_string) ==
    CASE type_string = Str("string") -> "str"
      [] type_string = Str("integer") -> "int"
      [] type_string = Str("number") -> "float"
      [] type_string = Str("boolean") -> "bool"
      [] type_string = Str("array") -> "List"
      [] type_string = Str("object") -> "Dict"
      [] OTHER -> KeyError

\* map_openapi_type; array_type is NoneType when the caller passes none
map_openapi_type(openapi_type, array_type) ==
    IF openapi_type.data_type = "REF"
    THEN Last(Last(openapi_type.type_string))
    ELSE IF openapi_type.type_string = Str("array")
         THEN IF array_type.data_type = "NONE" THEN AttributeError
              ELSE IF array_type.data_type = "REF"
                   THEN "List[" \o Last(Last(array_type.type_string)) \o "]"
                   ELSE IF type_mapping(array_type.type_string) \in Errors
                        THEN KeyError
                        ELSE "List[" \o type_mapping(array_type.type_string) \o "]"
         ELSE type_mapping(openapi_type.type_string)

\* get_openapi_type(fragment["items"]): KeyError when there is no "items"
ItemsType(fragment) ==
    IF fragment.items = <<>> THEN ErrorType(KeyError)
    ELSE get_openapi_type(fragment.items[1])

(***************************************************************************)
(* One property fragment through lines 197-202: get_openapi_type on the    *)
(* fragment, get_openapi_type on its "items" when it is an array, then     *)
(* map_openapi_type.  Fragments nest arrays up to MaxDepth deep.           *)
(***************************************************************************)
MaxDepth == 2

Leaves ==
    { TypeFrag(s) : s \in {"string", "integer", "number", "boolean", "object",
                            "file", "null"} }
    \cup { RefFrag(BookRef), RefFrag(AuthorRef), RefFrag(<< <<"#">>, <<"definitions">>, <<"User">> >>), EmptyFrag,
           [ref |-> <<BookRef>>, type |-> <<Str("object")>>, items |-> <<>>] }

RECURSIVE Fragments(_)
Fragments(depth) ==
    IF depth = 0 THEN Leaves
    ELSE Fragments(depth - 1)
         \cup { ArrayFrag(item) : item \in Fragments(depth - 1) }
         \cup { TypeFrag("array") }

NoTypes == [open_api_type |-> NoneType, array_type |-> NoneType]

TypesIdle ==
    tpc = "idle" /\ prop = EmptyFrag /\ resolved = NoTypes /\ type_name = ""

\* lines 197-200
ResolveTypes ==
    /\ tpc = "fragment"
    /\ LET open_api_type == get_openapi_type(prop)
           array_type ==
               IF open_api_type.data_type = "BASIC"
                  /\ open_api_type.type_string = Str("array")
               THEN ItemsType(prop)
               ELSE NoneType
           raised == IF open_api_type.data_type = "ERROR" THEN open_api_type
                     ELSE array_type
       IN IF raised.data_type = "ERROR"
          THEN /\ tpc' = "error"
               /\ type_name' = Last(Last(raised.type_string))
               /\ UNCHANGED resolved
          ELSE /\ tpc' = "resolved"
               /\ resolved' = [open_api_type |-> open_api_type, array_type |-> array_type]
               /\ UNCHANGED type_name
    /\ UNCHANGED prop

\* line 202
MapType ==
    /\ tpc = "resolved"
    /\ type_name' = map_openapi_type(resolved.open_api_type, resolved.array_type)
    /\ tpc' = IF type_name' \in Errors THEN "error" ELSE "mapped"
    /\ UNCHANGED <<prop, resolved>>

(***************************************************************************)
(* convert_definitions_to_dataclasses, the body of its loop over the       *)
(* properties of one schema.  A field line is                              *)
(*   f'{indent}{mangled name}: {field_type} {default}'.                    *)
(***************************************************************************)
DefaultNone == "= field(default=None)"

\* lines 197-202: the type name of one property, or the error raised
FieldType(field_props) ==
    LET open_api_type == get_openapi_type(field_props) IN
    IF open_api_type.data_type = "ERROR" THEN Last(Last(open_api_type.type_string))
    ELSE IF open_api_type.data_type = "BASIC"
            /\ open_api_type.type_string = Str("array")
         THEN LET array_type == ItemsType(field_props) IN
              IF array_type.data_type = "ERROR"
              THEN Last(Last(array_type.type_string))
              ELSE map_openapi_type(open_api_type, array_type)
         ELSE map_openapi_type(open_api_type, NoneType)

\* line 203 and the rendering of lines 206, 208
FieldLine(field_name, field_type, required_fields) ==
    [name |-> mangle_python_keyword(field_name),
     type |-> field_type,
     default |-> IF field_name \notin required_fields THEN DefaultNone ELSE ""]

AddFieldAppendOnly(lines, line, is_required) == Append(lines, line)

\* lines 205-208: fields.insert(0, ...) for a required field, else append
AddField(lines, line, is_required) ==
    IF is_required THEN <<line>> \o lines ELSE Append(lines, line)

\* lines 196-208 from property i on; the error of the first property whose
\* type cannot be resolved ends the loop
RECURSIVE FieldsFrom(_, _, _, _)
FieldsFrom(properties, required_fields, i, lines) ==
    IF i > Len(properties) THEN [fields |-> lines, error |-> "none"]
    ELSE LET field_name == properties[i].name
             field_type == FieldType(properties[i].props)
         IN IF field_type \in Errors
            THEN [fields |-> lines, error |-> field_type]
            ELSE FieldsFrom(properties, required_fields, i + 1,
                            AddField(lines,
                                     FieldLine(field_name, field_type, required_fields),
                                     field_name \in required_fields))

(***************************************************************************)
(* One schema definition through convert_definitions_to_dataclasses.       *)
(***************************************************************************)
MaxProps == 3

PropNames == { <<"i","d">>, <<"n","a","m","e">>, <<"c","l","a","s","s">>, <<"t","a","g","s">> }

PropFragments == { TypeFrag("integer"), ArrayFrag(RefFrag(AuthorRef)), EmptyFrag }

\* property lists: a dict has each key once
PropertyLists ==
    UNION { { s \in [1..n -> [name : PropNames, props : PropFragments]] :
                \A i, j \in 1..n : i /= j => s[i].name /= s[j].name }
            : n \in 0..MaxProps }

DefsIdle == dpc = "idle" /\ schema = [properties |-> <<>>, required |-> {}] /\ fields = <<>>

InitDefs ==
    /\ dpc = "start"
    /\ schema \in [properties : PropertyLists, required : SUBSET PropNames]
    /\ fields = <<>>

ConvertDefinition ==
    /\ dpc = "start"
    /\ LET r == FieldsFrom(schema.properties, schema.required, 1, <<>>) IN
         /\ fields' = IF r.error = "none" THEN r.fields ELSE <<>>
         /\ dpc' = IF r.error = "none" THEN "done" ELSE "error"
    /\ UNCHANGED schema

(***************************************************************************)
(* convert_definitions_to_dataclasses over a whole definitions section.    *)
(* A key is its list of dotted parts.  A generated block carries the class *)
(* line and the field lines ("    pass" when there are none); the          *)
(* docstring, which repeats the field names and types, is left out.        *)
(***************************************************************************)
MaxDefs == 2

NoOverrides == [n \in {} |-> ""]

IsFixedNever(class_name, fixed) == FALSE

\* line 182: class_name in self.fixed_class_definitions
IsFixed(class_name, fixed) == class_name \in DOMAIN fixed

\* lines 179-217 for one definition: the block appended, or the error raised
DefinitionBlock(name, definition, fixed, parent_class_name) ==
    LET class_name == Last(name) IN
    IF IsFixed(class_name, fixed)
    THEN [block |-> [kind |-> "fixed", text |-> fixed[class_name]], error |-> "none"]
    ELSE LET r == FieldsFrom(definition.properties, definition.required, 1, <<>>) IN
         [block |-> [kind |-> "dataclass",
                     class_name |-> class_name,
                     parent |-> parent_class_name,
                     fields |-> IF r.fields = <<>> THEN <<"    pass">> ELSE r.fields],
          error |-> r.error]

\* the whole function from definition i on
RECURSIVE BlocksFrom(_, _, _, _, _)
BlocksFrom(defs, fixed, parent_class_name, i, acc) ==
    IF i > Len(defs) THEN [blocks |-> acc, error |-> "none"]
    ELSE LET r == DefinitionBlock(defs[i].key, defs[i].schema, fixed, parent_class_name) IN
         IF r.error /= "none" THEN [blocks |-> acc, error |-> r.error]
         ELSE BlocksFrom(defs, fixed, parent_class_name, i + 1, Append(acc, r.block))

DefKeys ==
    { <<"User">>, <<"v1", "User">>, <<"io", "k8s", "JSONSchemaProps">>, <<"Book">> }

Overrides ==
    { [n \in names |-> "<special/" \o n \o ".py>"] : names \in SUBSET {"JSONSchemaProps", "User"} }

DefSchemas ==
    { [properties |-> <<>>, required |-> {}],
      [properties |-> <<[name |-> <<"i","d">>, props |-> TypeFrag("integer")]>>,
       required |-> {<<"i","d">>}],
      [properties |-> <<[name |-> <<"i","d">>, props |-> EmptyFrag]>>,
       required |-> {}],
      [properties |-> <<[name |-> <<"n","a","m","e">>, props |-> TypeFrag("string")],
                        [name |-> <<"t","a","g","s">>,
                         props |-> ArrayFrag(RefFrag(AuthorRef))]>>,
       required |-> {<<"t","a","g","s">>}] }

ClassesIdle ==
    /\ cpc = "idle" /\ definitions = <<>> /\ fixed_class_definitions = NoOverrides
    /\ next_def = 0 /\ blocks = <<>>

\* one pass of the loop of line 178
ConvertNextDefinition ==
    /\ cpc = "loop"
    /\ next_def <= Len(definitions)
    /\ LET r == DefinitionBlock(definitions[next_def].key, definitions[next_def].schema,
                                fixed_class_definitions, "YamlDataClass")
       IN IF r.error /= "none"
          THEN cpc' = "error" /\ UNCHANGED <<next_def, blocks>>
          ELSE /\ blocks' = Append(blocks, r.block)
               /\ next_def' = next_def + 1
               /\ UNCHANGED cpc
    /\ UNCHANGED <<definitions, fixed_class_definitions>>

\* line 219: the loop is over and the blocks are joined
ReturnClasses ==
    /\ cpc = "loop"
    /\ next_def > Len(definitions)
    /\ cpc' = "done"
    /\ UNCHANGED <<definitions, fixed_class_definitions, next_def, blocks>>

(***************************************************************************)
(* convert_paths_to_methods.                                               *)
(*                                                                         *)
(* A media type is a sequence of chunks of text, so that str.startswith is *)
(* the prefix order on sequences.  A content map is the sequence of its    *)
(* [key, schema] entries in document order.  A path is the list            *)
(* path.split('/') gives, each item a sequence of chunks: a placeholder    *)
(* starts with the chunk "{".                                              *)
(***************************************************************************)
Json == <<"application/json">>
JsonUtf8 == <<"application/json", "; charset=utf-8">>
TextPlain == <<"text/plain">>

\* Generator.response_content_type as from_file passes it on (line 370)
ConfiguredContentType == Json

startswith(s, prefix) ==
    Len(prefix) <= Len(s) /\ SubSeq(s, 1, Len(prefix)) = prefix

HasMedia(content, media) == \E i \in DOMAIN content : content[i].key = media

MediaSchema(content, media) ==
    content[CHOOSE i \in DOMAIN content : content[i].key = media].schema

\* lines 274-277 and 293-296 from entry i on: a matching key replaces the
\* content type the later keys are compared with
RECURSIVE PrefixScan(_, _, _, _)
PrefixScan(content, i, content_type, found) ==
    IF i > Len(content) THEN [found |-> found, content_type |-> content_type]
    ELSE IF startswith(content[i].key, content_type)
         THEN PrefixScan(content, i + 1, content[i].key, TRUE)
         ELSE PrefixScan(content, i + 1, content_type, found)

\* lines 272-278 and 291-297: exact key, else the prefix scan
Negotiate(content, content_type) ==
    IF HasMedia(content, content_type)
    THEN [found |-> TRUE, content_type |-> content_type]
    ELSE PrefixScan(content, 1, content_type, FALSE)

RECURSIVE Text(_)
Text(item) == IF item = <<>> THEN "" ELSE item[1] \o Text(Tail(item))

IsPlaceholder(item) == item /= <<>> /\ item[1] = "{"

\* lines 222-226 from item i on: the loop breaks at the first placeholder
RECURSIVE NameItemFrom(_, _, _)
NameItemFrom(path, i, last_non_param_path_item) ==
    IF i > Len(path) \/ IsPlaceholder(path[i]) THEN last_non_param_path_item
    ELSE NameItemFrom(path, i + 1, path[i])

\* Generator.__construct_name__
construct_name(path, methoddef, method) ==
    LET last_non_param_path_item == NameItemFrom(path, 1, <<>>)
        m == IF Len(methoddef.parameters) = 0 /\ method = "get" THEN "list" ELSE method
    IN IF methoddef.operationId /= <<>> THEN methoddef.operationId[1]
       ELSE m \o Text(last_non_param_path_item)

\* map_openapi_type(self.get_openapi_type(schema)), lines 250, 256, 281
SchemaType(fragment) ==
    LET t == get_openapi_type(fragment) IN
    IF t.data_type = "ERROR" THEN Last(Last(t.type_string))
    ELSE map_openapi_type(t, NoneType)

\* lines 246-258: the Parameter objects of one location, in declared order
RECURSIVE ParametersIn(_, _, _)
ParametersIn(parameters, location, i) ==
    IF i > Len(parameters) THEN <<>>
    ELSE IF parameters[i].in = location
         THEN <<[name |-> parameters[i].name,
                 type |-> SchemaType(parameters[i].schema),
                 required |-> parameters[i].required]>>
              \o ParametersIn(parameters, location, i + 1)
         ELSE ParametersIn(parameters, location, i + 1)

ArgText(parameter) ==
    [name |-> parameter.name, type |-> parameter.type, default_none |-> ~parameter.required]

MethodArg(name, type_string) == [name |-> name, type_string |-> type_string]

\* lines 263-268: insert(0, ...) for a required parameter, else append
AddArg(list, item, required) ==
    IF required THEN <<item>> \o list ELSE Append(list, item)

\* lines 262-268 from parameter i on
RECURSIVE ArgsFrom(_, _, _)
ArgsFrom(parameters, i, acc) ==
    IF i > Len(parameters) THEN acc
    ELSE ArgsFrom(parameters, i + 1,
                  [args |-> AddArg(acc.args, ArgText(parameters[i]),
                                   parameters[i].required),
                   method_args |-> AddArg(acc.method_args,
                                          MethodArg(parameters[i].name, parameters[i].type),
                                          parameters[i].required)])

\* str.lower() on the HTTP verbs of a path item, which OpenAPI spells in
\* lower case
lower(method) ==
    CASE method = "GET" -> "get"
      [] method = "DELETE" -> "delete"
      [] method = "PUT" -> "put"
      [] method = "POST" -> "post"
      [] method = "PATCH" -> "patch"
      [] OTHER -> method

Warning(kind, op, name) ==
    [kind |-> kind, method |-> op.method, path |-> op.path, name |-> name]

TakesBodyPostOnly(method) == method = "post"

\* line 270
TakesBody(method) == method = "post" \/ method = "patch" \/ method = "put"

\* lines 269-283: the request body of one operation
RequestStage(op, content_type) ==
    IF ~TakesBody(op.method)
    THEN [status |-> "ok", content_type |-> content_type, data |-> <<>>, warns |-> <<>>]
    ELSE LET request_body_content == op.methoddef.requestBody
             n == Negotiate(request_body_content, content_type)
         IN IF ~n.found
            THEN [status |-> "skip", content_type |-> n.content_type, data |-> <<>>,
                  warns |-> <<Warning("request content", op, "")>>]
            ELSE LET request_body_type ==
                         SchemaType(MediaSchema(request_body_content, n.content_type))
                 IN IF request_body_type \in Errors
                    THEN [status |-> request_body_type, content_type |-> n.content_type,
                          data |-> <<>>, warns |-> <<>>]
                    ELSE [status |-> "ok", content_type |-> n.content_type,
                          data |-> <<request_body_type>>, warns |-> <<>>]

NoReturn == [status |-> "ok", response_type |-> "None", return_statement |-> "pass"]

\* lines 301-311: the return type and statement of a matched 200 content
ResponseTyping(schema_fragment) ==
    LET openapi_type == get_openapi_type(schema_fragment) IN
    IF openapi_type.data_type = "ERROR"
    THEN [status |-> Last(Last(openapi_type.type_string)),
          response_type |-> "", return_statement |-> ""]
    ELSE LET is_array == openapi_type.type_string = Str("array")
             item_type == IF is_array THEN ItemsType(schema_fragment) ELSE NoneType
         IN IF item_type.data_type = "ERROR"
            THEN [status |-> Last(Last(item_type.type_string)),
                  response_type |-> "", return_statement |-> ""]
            ELSE LET response_type == map_openapi_type(openapi_type, item_type) IN
                 IF response_type \in Errors
                 THEN [status |-> response_type, response_type |-> "",
                       return_statement |-> ""]
                 ELSE IF response_type = "str"
                 THEN [status |-> "ok", response_type |-> response_type,
                       return_statement |-> "return response.string()"]
                 ELSE IF is_array
                 THEN LET item_name == map_openapi_type(item_type, NoneType) IN
                      IF item_name \in Errors
                      THEN [status |-> item_name, response_type |-> "",
                            return_statement |-> ""]
                      ELSE [status |-> "ok", response_type |-> response_type,
                            return_statement |->
                                "return [" \o item_name
                                    \o ".load(item) for item in response.json()]"]
                 ELSE [status |-> "ok", response_type |-> response_type,
                       return_statement |->
                           "return " \o response_type \o ".load(response.json())"]

ReturnsNothingDeleteOnly(op) ==
    lower(op.method) = "delete" \/ "204" \in op.methoddef.responses.codes

\* line 287
ReturnsNothing(op) ==
    \/ lower(op.method) = "delete"
    \/ lower(op.method) = "put"
    \/ "204" \in op.methoddef.responses.codes

\* lines 285-315: the response of one operation
ResponseStage(op, content_type, function_name) ==
    LET responses == op.methoddef.responses IN
    IF ReturnsNothing(op)
    THEN [typing |-> NoReturn, content_type |-> content_type, warns |-> <<>>]
    ELSE IF "200" \in responses.codes
    THEN IF responses.content200 /= <<>>
         THEN LET n == Negotiate(responses.content200[1], content_type) IN
              IF ~n.found
              THEN [typing |-> [status |-> "skip", response_type |-> "",
                                return_statement |-> ""],
                    content_type |-> n.content_type,
                    warns |-> <<Warning("response content", op, function_name)>>]
              ELSE [typing |-> ResponseTyping(
                                   MediaSchema(responses.content200[1], n.content_type)),
                    content_type |-> n.content_type, warns |-> <<>>]
         ELSE [typing |-> [status |-> "ok", response_type |-> "Any",
                           return_statement |-> "pass"],
               content_type |-> content_type, warns |-> <<>>]
    ELSE [typing |-> [status |-> "skip", response_type |-> "", return_statement |-> ""],
          content_type |-> content_type,
          warns |-> <<Warning("no success response", op, ""),
                      Warning("responses", op, "")>>]

Names(parameters) == [i \in DOMAIN parameters |-> parameters[i].name]

\* lines 317-326: the text appended to result
MethodText(op, function_name, data, args, query_parameters, typing) ==
    [name |-> function_name,
     data_arg |-> data,
     args |-> args,
     response_type |-> typing.response_type,
     method |-> op.method,
     path |-> op.path,
     params |-> Names(query_parameters),
     data_attached |-> data /= <<>>,
     return_statement |-> typing.return_statement]

\* lines 328-345: the PythonProgramMethod appended to api.methods
ProgramMethod(op, function_name, data, method_args, query_parameters, typing) ==
    [name |-> function_name,
     return_type |-> typing.response_type,
     args |-> IF data /= <<>> THEN <<MethodArg("data", data[1])>> \o method_args
              ELSE method_args,
     request_call |-> [method |-> op.method, path |-> op.path,
                       params |-> Names(query_parameters),
                       data_attached |-> data /= <<>>],
     return_statement |-> typing.return_statement]

NotGenerated(status, content_type, warns) ==
    [status |-> status, content_type |-> content_type, warns |-> warns,
     text |-> <<>>, method |-> <<>>]

\* lines 242-345: one iteration of the loops, entered with the current
\* value of response_content_type
Iteration(op, content_type) ==
    LET methoddef == op.methoddef
        path_parameters == ParametersIn(methoddef.parameters, "path", 1)
        query_parameters == ParametersIn(methoddef.parameters, "query", 1)
        all == path_parameters \o query_parameters
    IN IF \E i \in DOMAIN all : all[i].type \in Errors
       THEN NotGenerated("error", content_type, <<>>)
       ELSE LET function_name == construct_name(op.path, methoddef, op.method)
                sig == ArgsFrom(all, 1, [args |-> <<>>, method_args |-> <<>>])
                req == RequestStage(op, content_type)
            IN IF req.status = "skip"
               THEN NotGenerated("skip", req.content_type, req.warns)
               ELSE IF req.status /= "ok"
               THEN NotGenerated("error", req.content_type, <<>>)
               ELSE LET res == ResponseStage(op, req.content_type, function_name) IN
                    IF res.typing.status = "skip"
                    THEN NotGenerated("skip", res.content_type, res.warns)
                    ELSE IF res.typing.status /= "ok"
                    THEN NotGenerated("error", res.content_type, <<>>)
                    ELSE [status |-> "ok",
                          content_type |-> res.content_type,
                          warns |-> <<>>,
                          text |-> <<MethodText(op, function_name, req.data, sig.args,
                                                query_parameters, res.typing)>>,
                          method |-> <<ProgramMethod(op, function_name, req.data,
                                                     sig.method_args, query_parameters,
                                                     res.typing)>>]

PathsIdle ==
    /\ ppc = "idle" /\ paths = <<>> /\ next_op = 0
    /\ response_content_type = <<>>
    /\ result = <<>> /\ api_methods = <<>> /\ warnings = <<>>

\* lines 233-239: the state convert_paths_to_methods starts its loops in
StartPaths(document) ==
    /\ ppc = "loop"
    /\ paths = document
    /\ next_op = 1
    /\ response_content_type = ConfiguredContentType
    /\ result = <<>>
    /\ api_methods = <<>>
    /\ warnings = <<>>

\* one (path, method, methoddef) triple through the loop body
ProcessOperation ==
    /\ ppc = "loop"
    /\ next_op <= Len(paths)
    /\ LET it == Iteration(paths[next_op], response_content_type) IN
         /\ response_content_type' = it.content_type
         /\ result' = result \o it.text
         /\ api_methods' = api_methods \o it.method
         /\ warnings' = warnings \o it.warns
         /\ ppc' = IF it.status = "error" THEN "error" ELSE "loop"
    /\ next_op' = next_op + 1
    /\ UNCHANGED paths

\* line 346
ReturnMethods ==
    /\ ppc = "loop"
    /\ next_op > Len(paths)
    /\ ppc' = "done"
    /\ UNCHANGED <<paths, next_op, response_content_type, result, api_methods, warnings>>

(***************************************************************************)
(* Documents.                                                              *)
(***************************************************************************)
Op(path, method, operationId, parameters, requestBody, responses) ==
    [path |-> path, method |-> method,
     methoddef |-> [operationId |-> operationId, parameters |-> parameters,
                    requestBody |-> requestBody, responses |-> responses]]

Param(name, location, required, fragment) ==
    [name |-> name, in |-> location, required |-> required, schema |-> fragment]

Entry(media, fragment) == [key |-> media, schema |-> fragment]

Responses(codes, content200) == [codes |-> codes, content200 |-> content200]

Methods == {"get", "post", "put", "patch", "delete"}
BodyMethods == {"post", "put", "patch"}

Placeholder(name) == <<"{", name, "}">>

\* -- documents of several operations that differ in verb and content ------
MaxOps == 2

Resources == <<"books", "authors", "users", "covers">>

IdParams == << Param("id", "path", TRUE, TypeFrag("integer")),
               Param("q", "query", FALSE, TypeFrag("string")) >>

BodyContents ==
    { <<>>,
      <<Entry(Json, RefFrag(BookRef))>>,
      <<Entry(JsonUtf8, RefFrag(AuthorRef))>> }

ResponseShapes ==
    { Responses({"404"}, <<>>),
      Responses({"204"}, <<>>),
      Responses({"200"}, <<>>),
      Responses({"200"}, << <<Entry(Json, RefFrag(BookRef))>> >>),
      Responses({"200"}, << <<Entry(JsonUtf8, ArrayFrag(RefFrag(BookRef)))>> >>),
      Responses({"200"}, << <<Entry(TextPlain, TypeFrag("string"))>> >>) }

\* the responses of a DELETE or a PUT are never read (line 287): two shapes
\* of them stand for all
UnreadResponses ==
    { Responses({"404"}, <<>>),
      Responses({"200"}, << <<Entry(Json, RefFrag(BookRef))>> >>) }

\* a verb without request body comes without one
Shapes ==
    { s \in [method : Methods, requestBody : BodyContents, responses : ResponseShapes] :
        /\ s.method \notin BodyMethods => s.requestBody = <<>>
        /\ s.method \in {"delete", "put"} => s.responses \in UnreadResponses }

\* the k-th triple of a document: each has a path of its own
ShapeOp(s, k) ==
    Op(<< <<>>, <<Resources[k]>>, Placeholder("id") >>, s.method, <<>>, IdParams,
       s.requestBody, s.responses)

Document(d) == [k \in DOMAIN d |-> ShapeOp(d[k], k)]

\* -- one-operation documents that differ in path, name and parameters -----
MaxParams == 2

SigPaths ==
    { << <<>>, <<"books">> >>,
      << <<>>, <<"books">>, Placeholder("id") >>,
      << <<>>, <<"users">>, Placeholder("id"), <<"books">> >>,
      << <<>>, Placeholder("id") >> }

SigParams ==
    { Param("a", "path", TRUE, TypeFrag("integer")),
      Param("b", "path", TRUE, TypeFrag("string")),
      Param("c", "query", TRUE, TypeFrag("string")),
      Param("d", "query", FALSE, TypeFrag("integer")),
      Param("e", "path", FALSE, TypeFrag("string")),
      Param("h", "header", FALSE, TypeFrag("string")),
      Param("g", "query", FALSE, EmptyFrag) }

ParamLists ==
    UNION { { s \in [1..n -> SigParams] :
                \A i, j \in 1..n : i /= j => s[i].name /= s[j].name }
            : n \in 0..MaxParams }

SigDocument(p, m, id, ps) ==
    << Op(p, m, id, ps, <<Entry(Json, RefFrag(BookRef))>>,
          Responses({"200"}, << <<Entry(Json, ArrayFrag(RefFrag(BookRef)))>> >>)) >>

(***************************************************************************)
(* from_file.  A version marker is a YAML scalar: a string, kept as its    *)
(* first character and the rest so that startswith("3") is computed, or a  *)
(* float (swagger: 2.0 without quotes).  An optional key of the document   *)
(* is a sequence of zero or one values.  The output file has a name, as    *)
(* the files the examples open.                                            *)
(***************************************************************************)
StrValue(text) == [kind |-> "str", text |-> text]
FloatValue(text) == [kind |-> "float", text |-> text]

SwaggerMarkers ==
    { <<>>, <<StrValue(<<"2", ".0">>)>>, <<StrValue(<<"1", ".2">>)>>,
      <<FloatValue(<<"2", ".0">>)>> }
OpenapiMarkers ==
    { <<>>, <<StrValue(<<"3", ".0.1">>)>>, <<StrValue(<<"2", ".0">>)>> }

\* a definitions section: absent, empty, convertible, or holding a property
\* without type information
Sections ==
    { <<>>, << <<>> >>,
      << <<[key |-> <<"User">>,
            schema |-> [properties |-> <<[name |-> <<"i","d">>,
                                          props |-> TypeFrag("integer")]>>,
                        required |-> {<<"i","d">>}]]>> >>,
      << <<[key |-> <<"User">>,
            schema |-> [properties |-> <<[name |-> <<"i","d">>,
                                          props |-> TypeFrag("integer")]>>,
                        required |-> {<<"i","d">>}]],
           [key |-> <<"io", "example", "Author">>,
            schema |-> [properties |-> <<[name |-> <<"i","d">>, props |-> EmptyFrag]>>,
                        required |-> {}]]>> >> }

\* operations: generated GET, generated POST, skipped GET, GET whose 200
\* schema has no type information
FileShapes ==
    { [method |-> "get", requestBody |-> <<>>,
       responses |-> Responses({"200"}, << <<Entry(Json, RefFrag(BookRef))>> >>)],
      [method |-> "post", requestBody |-> <<Entry(Json, RefFrag(BookRef))>>,
       responses |-> Responses({"204"}, <<>>)],
      [method |-> "get", requestBody |-> <<>>,
       responses |-> Responses({"404"}, <<>>)],
      [method |-> "get", requestBody |-> <<>>,
       responses |-> Responses({"200"}, << <<Entry(Json, EmptyFrag)>> >>)] }

\* what dict.get gives for an absent key
NoneValue == [kind |-> "None", text |-> <<>>]
\* line 355: openapi_spec.get("swagger", openapi_spec.get('openapi'))
SpecVersion(spec) ==
    IF spec.swagger /= <<>> THEN spec.swagger[1]
    ELSE IF spec.openapi /= <<>> THEN spec.openapi[1]
    ELSE NoneValue

\* lines 354-365: what from_file does before any conversion
SelectDefinitions(spec) ==
    LET spec_version == SpecVersion(spec) IN
    IF spec_version = NoneValue
    THEN [status |-> "exit", definitions |-> <<>>]
    ELSE LET selected ==
                 IF spec_version = StrValue(<<"2", ".0">>)
                 THEN [status |-> "ok", definitions |-> spec.definitions]
                 ELSE IF spec_version.kind /= "str"
                 THEN [status |-> "error", definitions |-> <<>>]
                 ELSE IF startswith(spec_version.text, <<"3">>)
                 THEN [status |-> "ok", definitions |-> spec.schemas]
                 ELSE [status |-> "ok", definitions |-> << <<>> >>]
         IN IF selected.status /= "ok" THEN selected
            ELSE IF selected.definitions = <<>> \/ selected.definitions = << <<>> >>
            THEN [status |-> "no_definitions", definitions |-> <<>>]
            ELSE [status |-> "selected", definitions |-> selected.definitions[1]]

\* the loop state after one more iteration: an error ends the run
AfterIteration(before, it) ==
    IF it.status = "error" THEN [before EXCEPT !.status = "error"]
    ELSE [status |-> "ok", content_type |-> it.content_type,
          result |-> before.result \o it.text,
          methods |-> before.methods \o it.method]

\* the loops of convert_paths_to_methods as a whole: run[i] is the state
\* after i triples
MethodsFrom(triples, content_type) ==
    LET run[i \in 0..Len(triples)] ==
            IF i = 0
            THEN [status |-> "ok", content_type |-> content_type,
                  result |-> <<>>, methods |-> <<>>]
            ELSE IF run[i - 1].status = "error" THEN run[i - 1]
            ELSE AfterIteration(run[i - 1],
                                Iteration(triples[i], run[i - 1].content_type))
    IN run[Len(triples)]

\* lines 233-239 and 346: the pair returned
Returned(r) ==
    [status |-> r.status,
     result |-> r.result,
     api |-> <<[name |-> "Api",
                fields |-> <<"host", "request_headers">>,
                methods |-> r.methods]>>]

\* paths is None when the document has no "paths": paths.items() fails
convert_paths_to_methods(optional_paths, content_type) ==
    IF optional_paths = <<>> THEN [status |-> "error", result |-> <<>>, api |-> <<>>]
    ELSE Returned(MethodsFrom(optional_paths[1], content_type))

Chunk(kind, text, body) == [kind |-> kind, text |-> text, body |-> body]

\* lines 371-398: the writes, in order
Writes(classes, method_texts) ==
    << Chunk("line", "from __future__ import annotations", <<>>),
       Chunk("line", "from typing import List, Dict, Any", <<>>),
       Chunk("line", "from dataclasses import dataclass, field", <<>>),
       Chunk("line", "from generator import YamlDataClass", <<>>),
       Chunk("dataclasses", "", classes),
       Chunk("line", "import requests", <<>>),
       Chunk("class", "API", <<"host", "request_headers">>),
       Chunk("methods", "", method_texts) >>

FileIdle ==
    /\ fpc = "idle"
    /\ openapi_spec = [swagger |-> <<>>, openapi |-> <<>>, definitions |-> <<>>,
                       schemas |-> <<>>, paths |-> <<>>]
    /\ section = <<>> /\ dataclasses_code = <<>> /\ methods = <<>>
    /\ methods_class = <<>> /\ output = <<>>

\* lines 354-365
FileSelectDefinitions ==
    /\ fpc = "loaded"
    /\ LET r == SelectDefinitions(openapi_spec) IN
         /\ fpc' = r.status
         /\ section' = r.definitions
    /\ UNCHANGED <<openapi_spec, dataclasses_code, methods, methods_class, output>>

FileConvertClassesAfterImports ==
    /\ fpc = "selected"
    /\ LET r == BlocksFrom(section, NoOverrides, "YamlDataClass", 1, <<>>) IN
         IF r.error /= "none"
         THEN fpc' = "error" /\ UNCHANGED dataclasses_code
         ELSE fpc' = "classes" /\ dataclasses_code' = r.blocks
    /\ output' = SubSeq(Writes(<<>>, <<>>), 1, 4)
    /\ UNCHANGED <<openapi_spec, section, methods, methods_class>>

\* line 368
FileConvertClasses ==
    /\ fpc = "selected"
    /\ LET r == BlocksFrom(section, NoOverrides, "YamlDataClass", 1, <<>>) IN
         IF r.error /= "none"
         THEN fpc' = "error" /\ UNCHANGED dataclasses_code
         ELSE fpc' = "classes" /\ dataclasses_code' = r.blocks
    /\ UNCHANGED <<openapi_spec, section, methods, methods_class, output>>

\* line 370
FileConvertMethods ==
    /\ fpc = "classes"
    /\ LET r == convert_paths_to_methods(openapi_spec.paths, ConfiguredContentType) IN
         IF r.status = "error"
         THEN fpc' = "error" /\ UNCHANGED <<methods, methods_class>>
         ELSE fpc' = "methods" /\ methods' = r.result /\ methods_class' = r.api
    /\ UNCHANGED <<openapi_spec, section, dataclasses_code, output>>

\* lines 371-401
FileWrite ==
    /\ fpc = "methods"
    /\ output' = output \o Writes(dataclasses_code, methods)
    /\ fpc' = "written"
    /\ UNCHANGED <<openapi_spec, section, dataclasses_code, methods, methods_class>>

(***************************************************************************)
(* Specifications.                                                         *)
(***************************************************************************)
InitMangleSpec == InitMangle /\ DefsIdle /\ PathsIdle /\ NamesIdle /\ TypesIdle /\ ClassesIdle /\ FileIdle
InitDefsSpec == MangleIdle /\ InitDefs /\ PathsIdle /\ NamesIdle /\ TypesIdle /\ ClassesIdle /\ FileIdle

InitNamesSpec ==
    /\ MangleIdle /\ DefsIdle /\ PathsIdle /\ TypesIdle /\ ClassesIdle /\ FileIdle
    /\ npc = "schema"
    /\ \E n \in 1..MaxNames :
         field_names \in { s \in [1..n -> FieldWords] :
                             \A i, j \in 1..n : i /= j => s[i] /= s[j] }
    /\ identifiers = <<>>
    /\ names_out = EmptyDict

InitTypesSpec ==
    /\ MangleIdle /\ DefsIdle /\ PathsIdle /\ NamesIdle /\ ClassesIdle /\ FileIdle
    /\ tpc = "fragment"
    /\ prop \in Fragments(MaxDepth)
    /\ resolved = NoTypes
    /\ type_name = ""

InitClassesSpec ==
    /\ MangleIdle /\ DefsIdle /\ PathsIdle /\ NamesIdle /\ TypesIdle /\ FileIdle
    /\ cpc = "loop"
    /\ \E n \in 1..MaxDefs :
         definitions \in { s \in [1..n -> [key : DefKeys, schema : DefSchemas]] :
                             \A i, j \in 1..n : i /= j => s[i].key /= s[j].key }
    /\ fixed_class_definitions \in Overrides
    /\ next_def = 1
    /\ blocks = <<>>

InitFileSpec ==
    /\ MangleIdle /\ DefsIdle /\ PathsIdle /\ NamesIdle /\ TypesIdle /\ ClassesIdle
    /\ fpc = "loaded"
    /\ \E sw \in SwaggerMarkers, oa \in OpenapiMarkers, v2 \in Sections, v3 \in Sections :
         \/ openapi_spec = [swagger |-> sw, openapi |-> oa, definitions |-> v2,
                            schemas |-> v3, paths |-> <<>>]
         \/ \E n \in 0..MaxOps : \E d \in [1..n -> FileShapes] :
               openapi_spec = [swagger |-> sw, openapi |-> oa, definitions |-> v2,
                               schemas |-> v3, paths |-> <<Document(d)>>]
    /\ section = <<>> /\ dataclasses_code = <<>> /\ methods = <<>>
    /\ methods_class = <<>> /\ output = <<>>

InitPathsSpec ==
    /\ MangleIdle /\ DefsIdle /\ NamesIdle /\ TypesIdle /\ ClassesIdle /\ FileIdle
    /\ \E n \in 1..MaxOps : \E d \in [1..n -> Shapes] : StartPaths(Document(d))
InitSigSpec ==
    /\ MangleIdle /\ DefsIdle /\ NamesIdle /\ TypesIdle /\ ClassesIdle /\ FileIdle
    /\ \E p \in SigPaths, m \in Methods, id \in {<<>>, <<"findThing">>},
          ps \in ParamLists : StartPaths(SigDocument(p, m, id, ps))

NextMangle ==
    \/ GenerateField /\ UNCHANGED <<dvars, pvars, nvars, tvars, cvars, fvars>>
    \/ LoadInstance /\ UNCHANGED <<dvars, pvars, nvars, tvars, cvars, fvars>>
    \/ AsDict /\ UNCHANGED <<dvars, pvars, nvars, tvars, cvars, fvars>>

NextDefs == ConvertDefinition /\ UNCHANGED <<mvars, pvars, nvars, tvars, cvars, fvars>>

NextPaths ==
    \/ ProcessOperation /\ UNCHANGED <<mvars, dvars, nvars, tvars, cvars, fvars>>
    \/ ReturnMethods /\ UNCHANGED <<mvars, dvars, nvars, tvars, cvars, fvars>>

NextNames ==
    \/ MangleFields /\ UNCHANGED <<mvars, dvars, pvars, tvars, cvars, fvars>>
    \/ DumpFields /\ UNCHANGED <<mvars, dvars, pvars, tvars, cvars, fvars>>

NextTypes ==
    \/ ResolveTypes /\ UNCHANGED <<mvars, dvars, pvars, nvars, cvars, fvars>>
    \/ MapType /\ UNCHANGED <<mvars, dvars, pvars, nvars, cvars, fvars>>

NextClasses ==
    \/ ConvertNextDefinition /\ UNCHANGED <<mvars, dvars, pvars, nvars, tvars, fvars>>
    \/ ReturnClasses /\ UNCHANGED <<mvars, dvars, pvars, nvars, tvars, fvars>>

NextFile ==
    \/ FileSelectDefinitions /\ UNCHANGED <<mvars, dvars, pvars, nvars, tvars, cvars>>
    \/ FileConvertClasses /\ UNCHANGED <<mvars, dvars, pvars, nvars, tvars, cvars>>
    \/ FileConvertMethods /\ UNCHANGED <<mvars, dvars, pvars, nvars, tvars, cvars>>
    \/ FileWrite /\ UNCHANGED <<mvars, dvars, pvars, nvars, tvars, cvars>>

Init ==
    \/ InitMangleSpec \/ InitDefsSpec \/ InitPathsSpec \/ InitSigSpec
    \/ InitNamesSpec \/ InitTypesSpec \/ InitClassesSpec \/ InitFileSpec
Next ==
    \/ NextMangle \/ NextDefs \/ NextPaths \/ NextNames \/ NextTypes
    \/ NextClasses \/ NextFile

Spec == Init /\ [][Next]_vars
SpecMangle == InitMangleSpec /\ [][NextMangle]_vars
SpecDefs == InitDefsSpec /\ [][NextDefs]_vars
SpecPaths == InitPathsSpec /\ [][NextPaths]_vars
SpecSig == InitSigSpec /\ [][NextPaths]_vars
SpecNames == InitNamesSpec /\ [][NextNames]_vars
SpecTypes == InitTypesSpec /\ [][NextTypes]_vars
SpecClasses == InitClassesSpec /\ [][NextClasses]_vars
SpecFile == InitFileSpec /\ [][NextFile]_vars

(***************************************************************************)
(* Properties of convert_definitions_to_dataclasses.                       *)
(***************************************************************************)
\* the names of properties from index i on that are (keep = TRUE) or are
\* not (keep = FALSE) in the required list, in declaration order
RECURSIVE NamesWhere(_, _, _, _)
NamesWhere(properties, required, keep, i) ==
    IF i > Len(properties) THEN <<>>
    ELSE IF (properties[i].name \in required) = keep
         THEN <<properties[i].name>> \o NamesWhere(properties, required, keep, i + 1)
         ELSE NamesWhere(properties, required, keep, i + 1)

RequiredThenOptional(s) ==
    NamesWhere(s.properties, s.required, TRUE, 1)
        \o NamesWhere(s.properties, s.required, FALSE, 1)

\* C1: the emitted field list is the required properties in declaration
\* order followed by the optional properties in declaration order.
C1_FieldOrder ==
    dpc = "done" =>
        [i \in DOMAIN fields |-> fields[i].name]
            = [i \in DOMAIN RequiredThenOptional(schema) |->
                   mangle_python_keyword(RequiredThenOptional(schema)[i])]

\* C2: the fields without a default are exactly the required properties,
\* the fields with the None default are exactly the others, and no defaulted
\* field comes before a non-defaulted one.
C2_DefaultsFollowRequired ==
    dpc = "done" =>
        LET P == schema.properties
            plain == {i \in DOMAIN fields : fields[i].default = ""}
            defaulted == {i \in DOMAIN fields : fields[i].default = DefaultNone}
        IN /\ Len(fields) = Len(P)
           /\ plain \cup defaulted = DOMAIN fields
           /\ {fields[i].name : i \in plain}
                = {mangle_python_keyword(P[i].name) :
                       i \in {j \in DOMAIN P : P[j].name \in schema.required}}
           /\ {fields[i].name : i \in defaulted}
                = {mangle_python_keyword(P[i].name) :
                       i \in {j \in DOMAIN P : P[j].name \notin schema.required}}
           /\ Cardinality(plain)
                = Cardinality({j \in DOMAIN P : P[j].name \in schema.required})
           /\ \A i, j \in DOMAIN fields : i \in defaulted /\ j \in plain => j < i

\* a class with an optional property declared before a required one
C2_Witness ==
    /\ dpc = "done"
    /\ \E i, j \in DOMAIN schema.properties :
         /\ i < j
         /\ schema.properties[i].name \notin schema.required
         /\ schema.properties[j].name \in schema.required

(***************************************************************************)
(* Properties of convert_paths_to_methods.                                 *)
(***************************************************************************)
\* the rendered texts and the program methods of the k-th triple
TextsOf(k) ==
    {i \in DOMAIN result :
        result[i].method = paths[k].method /\ result[i].path = paths[k].path}

MethodsOf(k) ==
    {i \in DOMAIN api_methods :
        /\ api_methods[i].request_call.method = paths[k].method
        /\ api_methods[i].request_call.path = paths[k].path}

WarningsOf(k) ==
    {i \in DOMAIN warnings :
        warnings[i].method = paths[k].method /\ warnings[i].path = paths[k].path}

Processed == {k \in DOMAIN paths : k < next_op}

\* a content map has a key that is the configured content type or that the
\* configured content type is a prefix of
Matches(content) ==
    \E i \in DOMAIN content :
        \/ content[i].key = ConfiguredContentType
        \/ startswith(content[i].key, ConfiguredContentType)

\* the operation is generated when it is the only one of its document
GeneratedAlone(op) == Iteration(op, ConfiguredContentType).status = "ok"

\* C3: an operation is generated in a document of several operations
\* exactly when it is generated as the only operation of a document.
C3_IndependentOfEarlierOperations ==
    ppc = "done" =>
        \A k \in DOMAIN paths : (TextsOf(k) /= {}) <=> GeneratedAlone(paths[k])

NoReturnOp(op) ==
    op.method \in {"delete", "put"} \/ "204" \in op.methoddef.responses.codes

\* the content of the request body or of the 200 response that the
\* operation is generated from has no key matching the configured type
Unmatched(op) ==
    \/ op.method \in BodyMethods /\ ~Matches(op.methoddef.requestBody)
    \/ /\ ~NoReturnOp(op)
       /\ "200" \in op.methoddef.responses.codes
       /\ op.methoddef.responses.content200 /= <<>>
       /\ ~Matches(op.methoddef.responses.content200[1])

\* C4: an operation without matching content is in neither the text nor
\* the client model, has exactly one warning, and every other operation
\* (that is generated on its own) is still rendered.
C4_SkipLeavesTheRest ==
    ppc = "done" =>
        \A k \in DOMAIN paths :
            Unmatched(paths[k]) =>
                /\ TextsOf(k) = {}
                /\ MethodsOf(k) = {}
                /\ Cardinality(WarningsOf(k)) = 1
                /\ \A j \in DOMAIN paths \ {k} :
                       GeneratedAlone(paths[j]) => TextsOf(j) /= {}

\* the path and query parameters of an operation from index i on that are
\* (keep = TRUE) or are not (keep = FALSE) required, in declared order
RECURSIVE DeclaredWhere(_, _, _)
DeclaredWhere(parameters, keep, i) ==
    IF i > Len(parameters) THEN <<>>
    ELSE IF parameters[i].in \in {"path", "query"} /\ parameters[i].required = keep
         THEN <<parameters[i].name>> \o DeclaredWhere(parameters, keep, i + 1)
         ELSE DeclaredWhere(parameters, keep, i + 1)

RequiredThenOptionalArgs(op) ==
    DeclaredWhere(op.methoddef.parameters, TRUE, 1)
        \o DeclaredWhere(op.methoddef.parameters, FALSE, 1)

\* C5: in a generated signature the required parameters come first, the
\* optional ones after them, each group in declared order.
C5_ArgumentOrder ==
    \A k \in Processed : \A i \in TextsOf(k) :
        Names(result[i].args) = RequiredThenOptionalArgs(paths[k])

\* the last item of the path that is not a placeholder, from item i on
RECURSIVE LastStatic(_, _, _)
LastStatic(path, i, last) ==
    IF i > Len(path) THEN last
    ELSE LastStatic(path, i + 1, IF IsPlaceholder(path[i]) THEN last ELSE path[i])

NamePrefix(op) ==
    IF op.method = "get" /\ Len(op.methoddef.parameters) = 0 THEN "list" ELSE op.method

\* C6: without an operationId the name is the verb followed by the last
\* path segment that is not a placeholder, for every path shape; with an
\* operationId the name is the operationId.
C6_SynthesizedName ==
    \A k \in Processed : \A i \in TextsOf(k) :
        result[i].name =
            IF paths[k].methoddef.operationId /= <<>>
            THEN paths[k].methoddef.operationId[1]
            ELSE NamePrefix(paths[k]) \o Text(LastStatic(paths[k].path, 1, <<>>))

\* C7: a GET without declared parameters and without operationId is named
\* "list" + last static segment and takes no arguments; a GET with declared
\* parameters is named "get" + last static segment; an operationId wins.
C7_ListNaming ==
    \A k \in Processed : \A i \in TextsOf(k) :
        LET op == paths[k]
            segment == Text(LastStatic(op.path, 1, <<>>))
        IN /\ op.methoddef.operationId /= <<>>
                => result[i].name = op.methoddef.operationId[1]
           /\ op.method = "get" /\ op.methoddef.operationId = <<>>
                => IF Len(op.methoddef.parameters) = 0
                   THEN /\ result[i].name = "list" \o segment
                        /\ result[i].args = <<>>
                        /\ result[i].data_arg = <<>>
                   ELSE result[i].name = "get" \o segment

\* the triples whose loop iteration ran to its end
Completed == {k \in Processed : ppc = "error" => k < next_op - 1}

MatchesKey(media) ==
    media = ConfiguredContentType \/ startswith(media, ConfiguredContentType)

\* the return type is the one resolved from the schema of a 200 content
\* entry whose key matches the configured content type
TypedFrom200(op, response_type) ==
    /\ "200" \in op.methoddef.responses.codes
    /\ op.methoddef.responses.content200 /= <<>>
    /\ \E n \in DOMAIN op.methoddef.responses.content200[1] :
         LET e == op.methoddef.responses.content200[1][n] IN
           /\ MatchesKey(e.key)
           /\ ResponseTyping(e.schema).status = "ok"
           /\ ResponseTyping(e.schema).response_type = response_type

Skipped(k) == TextsOf(k) = {} /\ MethodsOf(k) = {} /\ WarningsOf(k) /= {}

BareOk(op) ==
    /\ "200" \in op.methoddef.responses.codes
    /\ op.methoddef.responses.content200 = <<>>

DeclaredArgs(op) ==
    Cardinality({n \in DOMAIN op.methoddef.parameters :
                    op.methoddef.parameters[n].in \in {"path", "query"}})

\* C9: a generated POST, PATCH or PUT has exactly one synthesized data
\* parameter, typed by the request-body schema and first in the signature,
\* and its request call attaches the body; a method of another verb has no
\* data parameter and attaches no body.
C9_DataArgument ==
    \A k \in Completed :
        LET op == paths[k] IN
        \A i \in TextsOf(k) : \A j \in MethodsOf(k) :
            LET text == result[i]
                m == api_methods[j]
            IN IF op.method \in BodyMethods
               THEN /\ \E n \in DOMAIN op.methoddef.requestBody :
                         /\ MatchesKey(op.methoddef.requestBody[n].key)
                         /\ text.data_arg
                              = <<SchemaType(op.methoddef.requestBody[n].schema)>>
                    /\ text.data_attached
                    /\ Len(text.args) = DeclaredArgs(op)
                    /\ Len(m.args) = 1 + DeclaredArgs(op)
                    /\ m.args[1] = MethodArg("data", text.data_arg[1])
                    /\ \A n \in 2..Len(m.args) : m.args[n].name /= "data"
                    /\ m.request_call.data_attached
               ELSE /\ text.data_arg = <<>>
                    /\ ~text.data_attached
                    /\ Len(text.args) = DeclaredArgs(op)
                    /\ Len(m.args) = DeclaredArgs(op)
                    /\ \A n \in DOMAIN m.args : m.args[n].name /= "data"
                    /\ ~m.request_call.data_attached

\* a run that generated a method with a request body and one without
C9_Witness ==
    /\ ppc = "done"
    /\ \E k \in DOMAIN paths :
         paths[k].method \in {"put", "patch"} /\ TextsOf(k) /= {} /\ MethodsOf(k) /= {}
    /\ \E k \in DOMAIN paths :
         paths[k].method \in {"get", "delete"} /\ TextsOf(k) /= {} /\ MethodsOf(k) /= {}

(***************************************************************************)
(* Properties of the identifier mangling.                                  *)
(***************************************************************************)
\* C10: for a reserved word the mangled word is not reserved and
\* de-aliasing it gives the word back; a word that is not reserved is
\* mangled to itself.
C10_MangleRoundTrip ==
    /\ mpc /= "schema" /\ IsReserved(word) => ~IsReserved(field)
    /\ mpc /= "schema" /\ ~IsReserved(word) => field = word
    /\ mpc \in {"dumped", "dump_error"} /\ IsReserved(word) =>
           mpc = "dumped" /\ Keys(key_map) = <<word>>

\* the set of the live keys of a dict
KeySet(d) == {d[i].key : i \in {n \in DOMAIN d : d[n].live}}

\* C11: distinct field names are mangled to pairwise distinct identifiers,
\* and de-aliasing the dict keyed by them ends without error and gives
\* exactly the original field names.
C11_ManglingIsInjective ==
    /\ npc /= "schema" =>
           \A i, j \in DOMAIN identifiers : i /= j => identifiers[i] /= identifiers[j]
    /\ npc \in {"dumped", "dump_error"} =>
           /\ npc = "dumped"
           /\ KeySet(names_out) = {field_names[i] : i \in DOMAIN field_names}

\* the type name of a fragment when the element of an array is mapped as
\* the array itself is: last segment of a reference, table name of a
\* primitive, List[...] of an array; an error where the table has no name,
\* "items" is missing or neither $ref nor type is given
RECURSIVE MappedName(_)
MappedName(f) ==
    IF f.ref /= <<>> THEN Last(Last(f.ref[1]))
    ELSE IF f.type = <<>> THEN NotImplementedError
    ELSE IF f.type[1] /= Str("array") THEN type_mapping(f.type[1])
    ELSE IF f.items = <<>> THEN KeyError
    ELSE LET element == MappedName(f.items[1]) IN
         IF element \in Errors THEN element ELSE "List[" \o element \o "]"

IsArray(f) == f.ref = <<>> /\ f.type = <<Str("array")>>

\* C13: an array fragment is mapped to List[T], T being the name the
\* mapping gives its element (reference: last segment; primitive: table
\* name; array: its own List[...]); a fragment with neither $ref nor type
\* fails.
C13_ArrayTypeName ==
    tpc \in {"mapped", "error"} =>
        /\ IsArray(prop) /\ MappedName(prop) \notin Errors =>
               tpc = "mapped" /\ type_name = MappedName(prop)
        /\ prop = EmptyFrag => tpc = "error"

(***************************************************************************)
(* Properties of convert_definitions_to_dataclasses over a section.        *)
(***************************************************************************)
Overridden(k) == Last(definitions[k].key) \in DOMAIN fixed_class_definitions

Unresolvable(k) ==
    \E i \in DOMAIN definitions[k].schema.properties :
        FieldType(definitions[k].schema.properties[i].props) \in Errors

\* block k is what the schema of definition k generates: its class name and
\* one field line per property, named by the mangled property names
GeneratedFrom(k) ==
    LET properties == definitions[k].schema.properties IN
    /\ blocks[k].kind = "dataclass"
    /\ blocks[k].class_name = Last(definitions[k].key)
    /\ IF properties = <<>> THEN blocks[k].fields = <<"    pass">>
       ELSE /\ Len(blocks[k].fields) = Len(properties)
            /\ {blocks[k].fields[i].name : i \in DOMAIN blocks[k].fields}
                 = {mangle_python_keyword(properties[i].name) : i \in DOMAIN properties}

\* C14: one block per definition, in input order; the block of a definition
\* whose class name is overridden is the override text and its properties
\* are not resolved, so that they raise no error; every other definition is
\* generated from its schema.
C14_OneBlockPerDefinition ==
    /\ cpc \in {"loop", "done", "error"} =>
           /\ Len(blocks) = next_def - 1
           /\ \A k \in DOMAIN blocks :
                  IF Overridden(k)
                  THEN blocks[k] = [kind |-> "fixed",
                                    text |-> fixed_class_definitions[Last(definitions[k].key)]]
                  ELSE GeneratedFrom(k)
    /\ cpc = "done" => Len(blocks) = Len(definitions)
    /\ cpc = "error" => ~Overridden(next_def) /\ Unresolvable(next_def)
    /\ cpc = "loop" /\ next_def > 1 => ~(Unresolvable(next_def - 1) /\ ~Overridden(next_def - 1))

C14_Witness ==
    /\ cpc = "done"
    /\ Len(definitions) = 2
    /\ \E k \in DOMAIN definitions : Overridden(k) /\ Unresolvable(k)
    /\ \E k \in DOMAIN definitions : ~Overridden(k)

(***************************************************************************)
(* Properties of from_file.                                                *)
(***************************************************************************)
Swagger20 == openapi_spec.swagger = <<StrValue(<<"2", ".0">>)>>

Openapi3 ==
    /\ openapi_spec.openapi /= <<>>
    /\ openapi_spec.openapi[1].kind = "str"
    /\ startswith(openapi_spec.openapi[1].text, <<"3">>)

NothingBuilt == dataclasses_code = <<>> /\ methods = <<>> /\ methods_class = <<>>

\* the run has selected this section, or found it absent or empty
Selects(optional_section) ==
    IF optional_section = <<>> \/ optional_section = << <<>> >>
    THEN fpc = "no_definitions"
    ELSE fpc /= "no_definitions" /\ section = optional_section[1]

\* C12: a document whose version marker is missing or unrecognized (neither
\* swagger "2.0" nor an openapi value starting with "3") ends from_file in a
\* fatal error before anything is built; swagger "2.0" selects 'definitions'
\* and an openapi value starting with "3" selects 'components.schemas'.
C12_VersionDetection ==
    fpc \notin {"idle", "loaded"} =>
        /\ ~Swagger20 /\ ~Openapi3 => fpc \in {"exit", "error"} /\ NothingBuilt
        /\ Swagger20 => Selects(openapi_spec.definitions)
        /\ Openapi3 /\ openapi_spec.swagger = <<>> => Selects(openapi_spec.schemas)

\* the names in the signature the text of a method declares after self
TextArgNames(text) ==
    (IF text.data_arg /= <<>> THEN <<"data">> ELSE <<>>)
        \o [i \in DOMAIN text.args |-> text.args[i].name]

ModelArgNames(m) == [i \in DOMAIN m.args |-> m.args[i].name]

WrittenClass == CHOOSE i \in DOMAIN output : output[i].kind = "class"
WrittenMethods == CHOOSE i \in DOMAIN output : output[i].kind = "methods"

\* C15: the text written and the client model returned describe the same
\* client class: the same class name, Api, the same operations in the same
\* order, each with the same method name, argument names and return type.
C15_TextMatchesModel ==
    fpc = "written" =>
        LET api == methods_class[1]
            texts == output[WrittenMethods].body
        IN /\ output[WrittenClass].text = api.name
           /\ api.name = "Api"
           /\ Len(texts) = Len(api.methods)
           /\ \A i \in DOMAIN texts :
                  /\ texts[i].name = api.methods[i].name
                  /\ TextArgNames(texts[i]) = ModelArgNames(api.methods[i])
                  /\ texts[i].response_type = api.methods[i].return_type

\* C16: from_file writes only after both conversions: a run that ends early
\* for want of definitions, or aborts on a fatal error, has written nothing.
C16_WritesComeLast ==
    /\ output /= <<>> =>
           fpc = "written" /\ dataclasses_code /= <<>> /\ methods_class /= <<>>
    /\ fpc \in {"exit", "no_definitions", "error"} => output = <<>>

C16_Witness ==
    /\ fpc = "error"
    /\ dataclasses_code /= <<>>
    /\ openapi_spec.paths /= <<>>
    /\ output = <<>>
====
